---------------------------- MODULE Spec2Model ----------------------------
(***************************************************************************)
(* A model of the tldraw-sandbox pipeline engine: the canvas document      *)
(* (terminals and arrows), PipelineRunner.runPipeline (graph build,        *)
(* depth-first ordering, sequential execution loop) and the /execute       *)
(* backends it talks to.                                                    *)
(*                                                                         *)
(* JavaScript strings are modelled as sequences of tokens (a token is a    *)
(* piece of text that the code never looks inside, or the newline NL).     *)
(* A value of type `string | undefined` is a record [defined, val].        *)
(***************************************************************************)
EXTENDS Integers, Sequences, FiniteSets, TLC

\* Bound: the number of arrows drawn on the page.
MaxArrows == 2

---------------------------------------------------------------------------
\* Strings and optional strings

NL == "\n"
EmptyStr == <<>>
Undefined == [defined |-> FALSE, val |-> <<>>]
Some(s) == [defined |-> TRUE, val |-> s]

\* JavaScript truthiness of a `string | undefined`: undefined and '' are falsy.
Truthy(o) == o.defined /\ o.val # <<>>

\* a || b on optional strings
OrElse(a, b) == IF Truthy(a) THEN a ELSE b

RECURSIVE SplitFrom(_, _, _)
SplitFrom(s, i, cur) ==
  IF i > Len(s) THEN <<cur>>
  ELSE IF s[i] = NL THEN <<cur>> \o SplitFrom(s, i + 1, <<>>)
  ELSE SplitFrom(s, i + 1, Append(cur, s[i]))

\* s.split('\n'): the pieces between newlines; never empty.
Split(s) == SplitFrom(s, 1, <<>>)

\* arr.pop() of a non-empty array
Pop(arr) == arr[Len(arr)]

RECURSIVE Escape(_)
Escape(s) ==
  IF s = <<>> THEN <<>>
  ELSE (IF Head(s) = NL THEN <<"\\n">>
        ELSE IF Head(s) = "\"" THEN <<"\\\"">>
        ELSE <<Head(s)>>) \o Escape(Tail(s))

\* JSON.stringify of a string: the quoted, escaped text.
StringifyString(s) == <<"\"">> \o Escape(s) \o <<"\"">>

RECURSIVE JoinQuoted(_)
JoinQuoted(arr) ==
  IF arr = <<>> THEN <<>>
  ELSE IF Len(arr) = 1 THEN StringifyString(arr[1])
  ELSE StringifyString(arr[1]) \o <<",">> \o JoinQuoted(Tail(arr))

\* JSON.stringify of an array of strings.
StringifyArray(arr) == <<"[">> \o JoinQuoted(arr) \o <<"]">>

---------------------------------------------------------------------------
\* The document

\* editor.getCurrentPageShapes() filtered to terminals, in enumeration order.
Terminals == <<"A", "B", "C">>
TerminalIds == {Terminals[i] : i \in 1..Len(Terminals)}

\* An arrow end: bound to a shape, or a free point.
Bound(id) == [type |-> "binding", boundShapeId |-> id]
Point == [type |-> "point", boundShapeId |-> "none"]
TerminalEnds == {Bound(id) : id \in TerminalIds}
\* Every kind of end: bound to a terminal, bound to another shape, free.
AllEnds == TerminalEnds \cup {Bound("geo"), Point}
ArrowsBetween(ends) == [start : ends, end : ends]

RECURSIVE SeqsUpTo(_, _)
SeqsUpTo(S, n) ==
  IF n = 0 THEN {<<>>}
  ELSE LET shorter == SeqsUpTo(S, n - 1)
       IN shorter \cup {Append(q, x) : q \in {r \in shorter : Len(r) = n - 1}, x \in S}

\* The code of a terminal that the model does not look inside.
OpaqueCode == "user code"

\* getDefaultProps(), with the code given: the props of a terminal that the
\* pipeline reads or writes, and its title.
DefaultProps(code) ==
  [code |-> code, title |-> "Sandbox Terminal", isRunning |-> FALSE, lastResult |-> <<>>]

\* An update that replaces the props: what the partial leaves out is lost.
UpdateShapeReplacing(shape, partial) ==
  [f \in DOMAIN shape |->
     IF f \in DOMAIN partial THEN partial[f]
     ELSE IF f \in {"code", "title"} THEN "" ELSE shape[f]]

\* editor.updateShape({id, type, props: partial}): the partial props are merged
\* into the shape's props; the props it does not name stay.
UpdateShape(shape, partial) ==
  [f \in DOMAIN shape |-> IF f \in DOMAIN partial THEN partial[f] ELSE shape[f]]

VARIABLES
  arrows,     \* the arrows on the page, in enumeration order
  props,      \* terminal id -> [code, isRunning, lastResult]
  pc,         \* runPipeline: "idle" | "awaiting" | "delay" | "done"
  graph,      \* runPipeline's graph: target id -> source ids
  order,      \* runPipeline's order
  idx,        \* position in order of the current loop iteration
  outputs,    \* runPipeline's outputs map (a function on the ids it holds)
  inputData,  \* the current iteration's inputData
  inflight,   \* the /execute requests issued and not yet answered
  completed,  \* ids whose result this run has written back, in order
  failed,     \* ids whose execution in this run returned success: false
  backend,    \* what serves WORKER_URL: "subprocess" | "worker" | "unspecified"
  calls,      \* server.js: call of executeCode -> its locals and its child
  files,      \* server.js: the temporary directory, file name -> the call that wrote it
  now,        \* server.js: Date.now()
  gen,        \* a /generate endpoint: its configuration, its request, its transport
  http,       \* a server's request handler: the request it has, the response it sent
  manual,     \* terminal id -> the executions its Run button started that are in flight
  term        \* terminal id -> what the last execution wrote to the terminal's display

pipeVars == <<arrows, props, pc, graph, order, idx, outputs, inputData, inflight,
              completed, failed, backend>>
runnerVars == <<calls, files, now>>
genVars == <<gen, http>>
uiVars == <<manual, term>>
vars == <<pipeVars, runnerVars, genVars, uiVars>>

---------------------------------------------------------------------------
\* server.js: executeCode(code), the subprocess runner

\* Bounds: concurrent calls of executeCode, and the values Date.now() takes.
NumCalls == 2
MaxClock == 1
Calls == 1..NumCalls

\* spawn('node', [filename], {timeout: 10000}) and setTimeout(..., 10000)
SpawnTimeout == 10000

\* An own timer set later than the timeout option's.
OwnTimerDelayLonger == SpawnTimeout + 5000

OwnTimerDelay == 10000

\* A result of executeCode; exitCode and error are "none" when absent.
RunnerResult(kind, success, exitCode, error) ==
  [kind |-> kind, success |-> success, exitCode |-> exitCode, error |-> error]
Pending == RunnerResult("pending", FALSE, "none", "none")
ExitResult(exitCode) == RunnerResult("exit", exitCode = "0", exitCode, "none")
ErrorResult(message) == RunnerResult("error", FALSE, "none", message)
TimeoutResult == ErrorResult("Execution timeout (10s)")
\* Not a result: the promise executeCode returned was rejected.
Rejected == RunnerResult("rejected", FALSE, "none", "spawn threw")

IdleCall ==
  [ pc |-> "idle",            \* "idle" | "writing" | "pending" | "returned" | "rejected"
    filename |-> 0,           \* the number in script-${Date.now()}.js
    child |-> "none",         \* "none" | "running" | "signalled" | "exited" | "spawnfailed"
    exitCode |-> "none",      \* "0" | "1" | "null" (killed by a signal) | "-2" (spawn failed)
    script |-> 0,             \* the call whose code the child runs (the file's content)
    spawnTimer |-> "none",    \* the timer of spawn's timeout option
    ownTimer |-> "none",      \* the timer of executeCode's setTimeout
    onClose |-> "none",       \* the 'close' handler: "none" | "unlinking" | "done"
    onError |-> "none",       \* the 'error' handler: "none" | "unlinking" | "done"
    result |-> Pending,       \* what the promise (or the catch) gave the caller
    aliveAtTimeout |-> FALSE  \* the child had not exited when the timeout came
  ]

RunnerInit ==
  /\ calls = [c \in Calls |-> IdleCall]
  /\ files = [f \in {} |-> 0]
  /\ now = 0

\* A promise that every call of resolve settles anew.
ResolveLast(call, r) == r

\* resolve(r): only the first call settles the promise.
Resolve(call, r) == IF call.result = Pending THEN r ELSE call.result

\* child.kill(): SIGTERM to a running child; nothing for one that is gone.
Kill(child) == IF child = "running" THEN "signalled" ELSE child

\* const filename = ...Date.now()...; await writeFile(filename, code) begins.
Call(c) ==
  /\ calls[c].pc = "idle"
  /\ calls' = [calls EXCEPT ![c].pc = "writing", ![c].filename = now]
  /\ UNCHANGED <<files, now, pipeVars, genVars, uiVars>>

\* What spawn() does: it starts the child; or it fails with an errno that Node
\* reports by an 'error' event on the child it returns (ENOENT, EACCES,
\* EAGAIN); or it throws (any other errno, such as E2BIG or ENOMEM).
SpawnOutcomes == {"running", "spawnfailed", "threw"}

\* The promise executor after spawn returned a child: the handlers, the timer.
Spawned(call, c, outcome) ==
  [call EXCEPT !.pc = "pending",
               !.child = outcome,
               !.exitCode = IF outcome = "running" THEN "none" ELSE "-2",
               !.script = c,
               !.spawnTimer = "armed",
               !.ownTimer = "armed"]

\* spawn threw inside the executor of new Promise: the promise is rejected.  It
\* is returned, not awaited, inside the try, so the catch does not see it.
SpawnThrew(call) == [call EXCEPT !.pc = "rejected", !.result = Rejected]

\* writeFile is done; the promise executor runs: spawn, the handlers, the timer.
WriteDone(c) ==
  /\ calls[c].pc = "writing"
  /\ files' = [f \in DOMAIN files \cup {calls[c].filename} |->
                 IF f = calls[c].filename THEN c ELSE files[f]]
  /\ \E outcome \in SpawnOutcomes :
       calls' = [calls EXCEPT ![c] = IF outcome = "threw"
                                     THEN SpawnThrew(calls[c])
                                     ELSE Spawned(calls[c], c, outcome)]
  /\ UNCHANGED <<now, pipeVars, genVars, uiVars>>

\* writeFile rejects: the catch returns {success: false, error}.
WriteFails(c) ==
  /\ calls[c].pc = "writing"
  /\ calls' = [calls EXCEPT ![c].pc = "returned",
                            ![c].result = ErrorResult("write failed")]
  /\ UNCHANGED <<files, now, pipeVars, genVars, uiVars>>

\* The child ends (by itself, or by the signal sent to it); 'exit' clears the
\* timer of spawn's timeout option.
ChildExits(c) ==
  /\ calls[c].child \in {"running", "signalled"}
  /\ \E code \in (IF calls[c].child = "signalled" THEN {"null"} ELSE {"0", "1"}) :
       calls' = [calls EXCEPT ![c].child = "exited",
                              ![c].exitCode = code,
                              ![c].spawnTimer = IF @ = "armed" THEN "cleared" ELSE @]
  /\ UNCHANGED <<files, now, pipeVars, genVars, uiVars>>

\* 'error' is emitted (the spawn failed): the handler begins, awaiting unlink.
ChildError(c) ==
  /\ calls[c].child = "spawnfailed"
  /\ calls[c].onError = "none"
  /\ calls' = [calls EXCEPT ![c].onError = "unlinking"]
  /\ UNCHANGED <<files, now, pipeVars, genVars, uiVars>>

\* 'close' is emitted (after 'exit', or after the 'error' of a failed spawn):
\* the handler begins, awaiting unlink.
ChildClose(c) ==
  /\ \/ calls[c].child = "exited"
     \/ calls[c].child = "spawnfailed" /\ calls[c].onError # "none"
  /\ calls[c].onClose = "none"
  /\ calls' = [calls EXCEPT ![c].onClose = "unlinking"]
  /\ UNCHANGED <<files, now, pipeVars, genVars, uiVars>>

\* unlink(filename) is over (an error from it is ignored); the 'close' handler
\* resolves with the exit result.
CloseHandlerDone(c) ==
  /\ calls[c].onClose = "unlinking"
  /\ files' = [f \in DOMAIN files \ {calls[c].filename} |-> files[f]]
  /\ calls' = [calls EXCEPT ![c].onClose = "done",
                            ![c].result = Resolve(calls[c], ExitResult(calls[c].exitCode))]
  /\ UNCHANGED <<now, pipeVars, genVars, uiVars>>

\* The same for the 'error' handler, which resolves with the error's message.
ErrorHandlerDone(c) ==
  /\ calls[c].onError = "unlinking"
  /\ files' = [f \in DOMAIN files \ {calls[c].filename} |-> files[f]]
  /\ calls' = [calls EXCEPT ![c].onError = "done",
                            ![c].result = Resolve(calls[c], ErrorResult("spawn failed"))]
  /\ UNCHANGED <<now, pipeVars, genVars, uiVars>>

\* The callback of executeCode's own timer: child.kill(); resolve(timeout).
AfterOwnTimer(call) ==
  [call EXCEPT !.ownTimer = "fired",
               !.child = Kill(call.child),
               !.result = Resolve(call, TimeoutResult)]

\* The callback of the timeout option's timer: child.kill(killSignal).
AfterSpawnTimer(call) ==
  [call EXCEPT !.spawnTimer = "fired",
               !.child = Kill(call.child),
               !.aliveAtTimeout = @ \/ call.child = "running"]

\* The timer of spawn's timeout option comes due.  Both timers are created in
\* one synchronous block, so they start at the same loop time; with equal
\* delays they sit in one timer list and Node runs them in one pass, in the
\* order they were created, before it polls for any I/O event.
SpawnTimerFires(c) ==
  /\ calls[c].spawnTimer = "armed"
  /\ SpawnTimeout <= OwnTimerDelay \/ calls[c].ownTimer # "armed"
  /\ calls' = [calls EXCEPT ![c] =
                 IF SpawnTimeout = OwnTimerDelay /\ calls[c].ownTimer = "armed"
                 THEN AfterOwnTimer(AfterSpawnTimer(calls[c]))
                 ELSE AfterSpawnTimer(calls[c])]
  /\ UNCHANGED <<files, now, pipeVars, genVars, uiVars>>

\* executeCode's own timer comes due on its own: the other timer was cleared
\* by 'exit', or is due at another time.  It is never cancelled.
OwnTimerFires(c) ==
  /\ calls[c].ownTimer = "armed"
  /\ calls[c].spawnTimer # "armed" \/ OwnTimerDelay < SpawnTimeout
  /\ calls' = [calls EXCEPT ![c] =
                 AfterOwnTimer([calls[c] EXCEPT
                                  !.aliveAtTimeout = @ \/ calls[c].child = "running"])]
  /\ UNCHANGED <<files, now, pipeVars, genVars, uiVars>>

\* A millisecond passes.
Tick ==
  /\ now < MaxClock
  /\ now' = now + 1
  /\ UNCHANGED <<calls, files, pipeVars, genVars, uiVars>>

NextRunner ==
  \/ \E c \in Calls : Call(c)
  \/ \E c \in Calls : WriteDone(c)
  \/ \E c \in Calls : WriteFails(c)
  \/ \E c \in Calls : ChildExits(c)
  \/ \E c \in Calls : ChildError(c)
  \/ \E c \in Calls : ChildClose(c)
  \/ \E c \in Calls : CloseHandlerDone(c)
  \/ \E c \in Calls : ErrorHandlerDone(c)
  \/ \E c \in Calls : SpawnTimerFires(c)
  \/ \E c \in Calls : OwnTimerFires(c)
  \/ Tick

---------------------------------------------------------------------------
\* POST /generate: server.js (generateWithClaude) and the worker (generateCode)

\* Bound: the /generate requests an endpoint serves.
MaxRequests == 2

Servers == {"server", "worker"}

\* API_KEY of server.js (either environment variable), env.OPENROUTER_API_KEY
\* of the worker; "none" when it is not set.
ApiKeys(server) ==
  IF server = "server" THEN {"none", "sk-or-key", "sk-ant-key"} ELSE {"none", "sk-or-key"}

\* const isOpenRouter = API_KEY?.startsWith('sk-or-'); const aiEnabled = !!API_KEY
isOpenRouter(apiKey) == apiKey = "sk-or-key"
aiEnabled(apiKey) == apiKey # "none"

\* Texts a backend can put in the content field, as tokens: the code, the
\* code between markdown fences, fences with nothing between, the empty text.
\* The token "fence" stands for the three backquotes of a markdown code fence.
Fence == "fence"
Contents ==
  { <<"code">>, <<Fence, "code", NL, Fence>>, <<Fence, NL, Fence>>, <<>> }

\* What the fetch of the backend can come to:
\*   transport: "error" when fetch rejects;
\*   ok:        response.ok;
\*   json:      whether the body parses as JSON (response.json() resolves);
\*   text:      the field the code reads (choices[0].message.content, or
\*              content[0].text), Undefined when the body lacks it.
Outcome(transport, ok, json, text) ==
  [transport |-> transport, ok |-> ok, json |-> json, text |-> text]
NoOutcome == Outcome("none", FALSE, FALSE, Undefined)
Outcomes ==
  {Outcome("error", FALSE, FALSE, Undefined)} \cup
  {Outcome("ok", ok, FALSE, Undefined) : ok \in BOOLEAN} \cup
  {Outcome("ok", ok, TRUE, Undefined) : ok \in BOOLEAN} \cup
  {Outcome("ok", ok, TRUE, Some(t)) : ok \in BOOLEAN, t \in Contents}

\* .trim(): the whitespace at both ends goes.
RECURSIVE Trim(_)
Trim(s) ==
  IF s = <<>> THEN s
  ELSE IF Head(s) = NL THEN Trim(Tail(s))
  ELSE IF s[Len(s)] = NL THEN Trim(SubSeq(s, 1, Len(s) - 1))
  ELSE s

\* code.replace(<opening fence, newline>, '').replace(<newline, closing fence>, '').trim()
StripFences(code) ==
  LET open == IF code # <<>> /\ Head(code) = Fence THEN Tail(code) ELSE code
      afterOpen == IF open # <<>> /\ Head(code) = Fence /\ Head(open) = NL
                   THEN Tail(open) ELSE open
      close == IF afterOpen # <<>> /\ afterOpen[Len(afterOpen)] = Fence
               THEN SubSeq(afterOpen, 1, Len(afterOpen) - 1) ELSE afterOpen
      afterClose == IF close # afterOpen /\ close # <<>> /\ close[Len(close)] = NL
                    THEN SubSeq(close, 1, Len(close) - 1) ELSE close
  IN Trim(afterClose)

\* x || null
OrNull(o) == IF Truthy(o) THEN o ELSE Undefined

\* generateWithOpenRouter, after the fetch: null is Undefined.
generateWithOpenRouter(o) ==
  IF o.transport = "error" THEN Undefined        \* catch
  ELSE IF ~o.ok THEN Undefined                   \* if (!response.ok) return null
  ELSE IF ~o.json THEN Undefined                 \* response.json() rejects: catch
  ELSE LET code == OrNull(o.text)
       IN IF Truthy(code) THEN Some(StripFences(code.val)) ELSE code

\* generateWithAnthropic, after the fetch.
generateWithAnthropic(o) ==
  IF o.transport = "error" THEN Undefined
  ELSE IF ~o.ok THEN Undefined
  ELSE IF ~o.json THEN Undefined
  ELSE OrNull(o.text)

\* The worker's generateCode, after the fetch: response.ok is not looked at.
generateCode(o) ==
  IF o.transport = "error" THEN Undefined
  ELSE IF ~o.json THEN Undefined
  ELSE LET code == OrNull(o.text)
       IN IF Truthy(code) THEN Some(StripFences(code.val)) ELSE code

\* const sampleCode = [...]: the canned examples of server.js.
sampleCode == << <<"fibonacci">>, <<"array operations">>, <<"prime sieve">> >>

\* The body of the answer to POST /generate.
GenerateResponse(success, code, error) ==
  [success |-> success, code |-> code, error |-> error]
NoResponse == GenerateResponse(FALSE, Undefined, Undefined)

\* server.js /generate: if (!code) code = sampleCode[...]; {success: true, code}
ServerResponses(code) ==
  IF Truthy(code)
  THEN {GenerateResponse(TRUE, code, Undefined)}
  ELSE {GenerateResponse(TRUE, Some(sampleCode[i]), Undefined) : i \in DOMAIN sampleCode}

\* The worker's /generate: {success: true, code}, or {success: false, error}.
WorkerResponses(code) ==
  IF Truthy(code)
  THEN {GenerateResponse(TRUE, code, Undefined)}
  ELSE {GenerateResponse(FALSE, Undefined, Some(<<"Generation failed">>))}

Responses(server, code) ==
  IF server = "server" THEN ServerResponses(code) ELSE WorkerResponses(code)

IdleGenerator(server, apiKey) ==
  [ server |-> server,
    apiKey |-> apiKey,
    pc |-> "idle",           \* "idle" | "fetching" | "done"
    requests |-> 0,          \* /generate requests received
    fetches |-> 0,           \* calls of fetch: requests put on the network
    outcome |-> NoOutcome,   \* what the last fetch came to
    returned |-> Undefined,  \* what the generator returned (Undefined: null)
    response |-> NoResponse  \* the answer to the /generate request
  ]

\* server.js generateWithClaude: if (!aiEnabled) return null.
ServerSkipsFetch(apiKey) == ~aiEnabled(apiKey)

\* The worker's generateCode starts with the fetch, whatever apiKey is.
WorkerSkipsFetch(apiKey) == FALSE

SkipsFetch(server, apiKey) ==
  IF server = "server" THEN ServerSkipsFetch(apiKey) ELSE WorkerSkipsFetch(apiKey)

\* POST /generate arrives; the handler runs as far as the generator's fetch,
\* or to its answer when the generator returns without one.
GenerateRequest ==
  /\ gen.pc \in {"idle", "done"}
  /\ gen.requests < MaxRequests
  /\ IF SkipsFetch(gen.server, gen.apiKey)
     THEN \E resp \in Responses(gen.server, Undefined) :
            gen' = [gen EXCEPT !.pc = "done", !.requests = @ + 1,
                               !.outcome = NoOutcome, !.returned = Undefined,
                               !.response = resp]
     ELSE gen' = [gen EXCEPT !.pc = "fetching", !.requests = @ + 1,
                             !.fetches = @ + 1, !.outcome = NoOutcome,
                             !.returned = Undefined, !.response = NoResponse]
  /\ UNCHANGED <<http, pipeVars, runnerVars, uiVars>>

\* What the generator in use returns for the outcome o of its fetch.
Generated(server, apiKey, o) ==
  IF server = "worker" THEN generateCode(o)
  ELSE IF isOpenRouter(apiKey) THEN generateWithOpenRouter(o)
  ELSE generateWithAnthropic(o)

\* The fetch settles: the generator returns, the handler answers.
FetchSettles ==
  /\ gen.pc = "fetching"
  /\ \E o \in Outcomes :
       LET code == Generated(gen.server, gen.apiKey, o)
       IN \E resp \in Responses(gen.server, code) :
            gen' = [gen EXCEPT !.pc = "done", !.outcome = o,
                               !.returned = code, !.response = resp]
  /\ UNCHANGED <<http, pipeVars, runnerVars, uiVars>>

NextGenerate ==
  \/ GenerateRequest
  \/ FetchSettles

---------------------------------------------------------------------------
\* The request handlers: server.js, the worker, the sandbox worker

HttpServers == {"server", "worker", "sandbox"}
Methods == {"OPTIONS", "POST", "GET"}
Pathnames == {"/execute", "/generate", "/health", "/other"}
\* The request body: JSON with the fields read, JSON without code, not JSON.
Bodies == {"json", "nocode", "notjson"}
Requests == [method : Methods, path : Pathnames, body : Bodies]

AllowOrigin == <<"Access-Control-Allow-Origin", "*">>

\* const corsHeaders of server.js and of the worker: the same four headers.
corsHeaders ==
  { AllowOrigin,
    <<"Access-Control-Allow-Methods", "POST, GET, OPTIONS">>,
    <<"Access-Control-Allow-Headers", "Content-Type">>,
    <<"Content-Type", "application/json">> }

\* The sandbox worker: the headers of its preflight answer, and its corsHeaders.
SandboxPreflightHeaders == corsHeaders \ {<<"Content-Type", "application/json">>}
SandboxCorsHeaders == {AllowOrigin, <<"Content-Type", "application/json">>}

\* Headers of an answer that names none.
NoHeaders(server) == {}

\* The headers every answer after the preflight is given.
HeadersOf(server) == IF server = "sandbox" THEN SandboxCorsHeaders ELSE corsHeaders

HttpResponse(status, headers) == [status |-> status, headers |-> headers]

\* Whether the try block of the handler can throw for the request: JSON.parse
\* or request.json() of a body that is not JSON, and the execution itself.
CanThrow(server, req) ==
  IF req.method # "POST" \/ req.path \notin {"/execute", "/generate"} THEN {FALSE}
  ELSE IF req.body = "notjson" THEN {TRUE}
  ELSE IF req.path = "/execute" THEN BOOLEAN
  ELSE {FALSE}

\* The response of the handler to the request; threw: its try block threw.
Route(server, req, threw) ==
  IF req.method = "OPTIONS"
  THEN HttpResponse(200, IF server = "sandbox" THEN SandboxPreflightHeaders ELSE corsHeaders)
  ELSE IF threw THEN HttpResponse(500, HeadersOf(server))
  ELSE IF req.path = "/execute" /\ req.method = "POST"
       THEN IF server = "sandbox" /\ req.body = "nocode"
            THEN HttpResponse(400, HeadersOf(server))
            ELSE HttpResponse(200, HeadersOf(server))
  ELSE IF req.path = "/generate" /\ req.method = "POST" THEN HttpResponse(200, HeadersOf(server))
  ELSE IF req.path = "/health" THEN HttpResponse(200, HeadersOf(server))
  ELSE HttpResponse(404, HeadersOf(server))

IdleHandler(server) ==
  [ server |-> server,
    pc |-> "idle",                       \* "idle" | "handling" | "responded"
    request |-> [method |-> "GET", path |-> "/health", body |-> "json"],
    response |-> HttpResponse(0, {})     \* status 0: nothing sent
  ]

\* A request arrives.
Receive(req) ==
  /\ http.pc \in {"idle", "responded"}
  /\ http' = [http EXCEPT !.pc = "handling", !.request = req,
                          !.response = HttpResponse(0, {})]
  /\ UNCHANGED <<gen, pipeVars, runnerVars, uiVars>>

\* The handler answers it.
Reply ==
  /\ http.pc = "handling"
  /\ \E threw \in CanThrow(http.server, http.request) :
       http' = [http EXCEPT !.pc = "responded",
                            !.response = Route(http.server, http.request, threw)]
  /\ UNCHANGED <<gen, pipeVars, runnerVars, uiVars>>

NextServe ==
  \/ \E req \in Requests : Receive(req)
  \/ Reply

---------------------------------------------------------------------------
\* TerminalShape: the Run button of a terminal (handleExecute)

\* Bound: the executions one terminal's Run button has in flight at a time.
MaxManual == 2

\* Code that is empty, or white space only: code.trim() is ''.
BlankCodes == {"", " "}
Blank(code) == code \in BlankCodes

\* What the terminal's display (xterm) shows of the last execution.
Shows(status, message) == [status |-> status, message |-> message]
ShowsNothing == Shows("none", Undefined)
ShowsCompleted == Shows("completed", Undefined)

UiInit ==
  /\ manual = [id \in TerminalIds |-> 0]
  /\ term = [id \in TerminalIds |-> ShowsNothing]

\* What the awaited execution of handleExecute comes to: a result with
\* success true, a result with success false (with an error field, or, as a
\* non-zero exit of the subprocess runner, without one), or an exception.
ManualOutcomes ==
  { [threw |-> FALSE, success |-> TRUE, error |-> Undefined],
    [threw |-> FALSE, success |-> FALSE, error |-> Some(<<"Execution timeout (10s)">>)],
    [threw |-> FALSE, success |-> FALSE, error |-> Undefined],
    [threw |-> TRUE, success |-> FALSE, error |-> Some(<<"Unknown error">>)] }

\* A Run button that is never disabled.
RunDisabledNever(shape) == FALSE

\* disabled={shape.props.isRunning || !code.trim()}
RunDisabled(shape) == shape.isRunning \/ Blank(shape.code)

\* A click on a terminal's Run button: handleExecute up to its await.
ManualRun(id) ==
  /\ ~RunDisabled(props[id])
  /\ ~Blank(props[id].code)                \* if (... || !code.trim()) return
  /\ manual[id] < MaxManual
  /\ props' = [props EXCEPT ![id] = UpdateShape(@, [isRunning |-> TRUE])]
  /\ manual' = [manual EXCEPT ![id] = @ + 1]
  /\ UNCHANGED <<arrows, pc, graph, order, idx, outputs, inputData, inflight,
                 completed, failed, backend, term, runnerVars, genVars>>

\* The lines handleExecute writes after the await: the result's error, or the
\* exception's message, or "Execution completed".
Displayed(o) ==
  IF o.threw THEN Shows("error", o.error)
  ELSE IF o.success THEN ShowsCompleted
  ELSE Shows("error", o.error)

\* A handler that leaves isRunning alone when the execution threw.
AfterExecuteNoCatch(o) == IF o.threw THEN [isRunning |-> TRUE] ELSE [isRunning |-> FALSE]

\* What handleExecute writes onto the shape once the execution is over.
AfterExecute(o) == [isRunning |-> FALSE]

\* The awaited execution is over: the display is written, isRunning is reset.
ManualDone(id, o) ==
  /\ manual[id] > 0
  /\ manual' = [manual EXCEPT ![id] = @ - 1]
  /\ term' = [term EXCEPT ![id] = Displayed(o)]
  /\ props' = [props EXCEPT ![id] = UpdateShape(@, AfterExecute(o))]
  /\ UNCHANGED <<arrows, pc, graph, order, idx, outputs, inputData, inflight,
                 completed, failed, backend, runnerVars, genVars>>

NextManual ==
  \/ \E id \in TerminalIds : ManualRun(id)
  \/ \E id \in TerminalIds : \E o \in ManualOutcomes : ManualDone(id, o)

---------------------------------------------------------------------------
\* runPipeline: the dependency graph

\* graph.get(id) || []
Deps(g, id) == IF id \in DOMAIN g THEN g[id] ELSE <<>>

\* A build loop that takes every arrow with two bound ends, whatever the
\* shapes at its ends are.
RECURSIVE AddArrowsAnyShape(_, _, _)
AddArrowsAnyShape(g, arrs, i) ==
  IF i > Len(arrs) THEN g
  ELSE LET sourceId == arrs[i].start.boundShapeId
           targetId == arrs[i].end.boundShapeId
       IN IF arrs[i].start.type = "binding" /\ arrs[i].end.type = "binding"
          THEN AddArrowsAnyShape([t \in DOMAIN g \cup {targetId} |->
                                    IF t = targetId THEN Append(Deps(g, targetId), sourceId)
                                    ELSE g[t]],
                                 arrs, i + 1)
          ELSE AddArrowsAnyShape(g, arrs, i + 1)

RECURSIVE AddArrows(_, _, _)
AddArrows(g, arrs, i) ==
  IF i > Len(arrs) THEN g
  ELSE LET startBinding == arrs[i].start
           endBinding == arrs[i].end
           sourceId == startBinding.boundShapeId
           targetId == endBinding.boundShapeId
       IN IF /\ startBinding.type = "binding"
             /\ endBinding.type = "binding"
             /\ sourceId \in TerminalIds
             /\ targetId \in TerminalIds
          THEN AddArrows([t \in DOMAIN g \cup {targetId} |->
                            IF t = targetId THEN Append(Deps(g, targetId), sourceId)
                            ELSE g[t]],
                         arrs, i + 1)
          ELSE AddArrows(g, arrs, i + 1)

\* A graph that starts with no key: only targets of arrows get one.
BuildGraphSparse(arrs) == AddArrows([id \in {} |-> <<>>], arrs, 1)

\* graph: every terminal mapped to [], then one push per terminal-to-terminal arrow.
BuildGraph(arrs) == AddArrows([id \in TerminalIds |-> <<>>], arrs, 1)

---------------------------------------------------------------------------
\* runPipeline: the ordering (visit)

RECURSIVE Visit(_, _, _)
RECURSIVE VisitDeps(_, _, _, _)
\* st = [visited, order]: the two locals that visit() updates.
Visit(g, id, st) ==
  IF id \in st.visited THEN st
  ELSE LET marked == [st EXCEPT !.visited = @ \cup {id}]
           after == VisitDeps(g, Deps(g, id), 1, marked)
       IN [after EXCEPT !.order = Append(@, id)]

VisitDeps(g, deps, i, st) ==
  IF i > Len(deps) THEN st
  ELSE VisitDeps(g, deps, i + 1, Visit(g, deps[i], st))

RECURSIVE VisitAll(_, _, _)
VisitAll(g, i, st) ==
  IF i > Len(Terminals) THEN st
  ELSE VisitAll(g, i + 1, Visit(g, Terminals[i], st))

\* The order of a scheduler that repeatedly takes the first terminal, in the
\* enumeration, whose dependencies have all been taken, and stops when there
\* is none: ties go to the enumeration order, the nodes of a cycle are left out.
RECURSIVE Ready(_, _)
Ready(g, taken) ==
  LET isTaken(id) == \E k \in 1..Len(taken) : taken[k] = id
      ready == {i \in 1..Len(Terminals) :
                  /\ ~isTaken(Terminals[i])
                  /\ \A k \in 1..Len(Deps(g, Terminals[i])) : isTaken(Deps(g, Terminals[i])[k])}
  IN IF ready = {} THEN taken
     ELSE Ready(g, Append(taken, Terminals[CHOOSE i \in ready : \A j \in ready : i <= j]))

TopoOrderReadyFirst(g) == Ready(g, <<>>)

\* The order without the sort: the terminals as enumerated.
TopoOrderUnsorted(g) == Terminals

\* for (const terminal of terminals) visit(terminal.id)
TopoOrder(g) == VisitAll(g, 1, [visited |-> {}, order |-> <<>>]).order

---------------------------------------------------------------------------
\* runPipeline: one loop iteration

\* outputs.get(d)
MapGet(m, d) == IF d \in DOMAIN m THEN Some(m[d]) ELSE Undefined

\* outputs.set(id, v)
MapSet(m, id, v) == [x \in DOMAIN m \cup {id} |-> IF x = id THEN v ELSE m[x]]

EmptyMap == [x \in {} |-> <<>>]

\* deps.map(d => outputs.get(d)).filter(Boolean)
RECURSIVE Inputs(_, _, _)
Inputs(deps, outs, i) ==
  IF i > Len(deps) THEN <<>>
  ELSE LET o == MapGet(outs, deps[i])
       IN (IF Truthy(o) THEN <<o.val>> ELSE <<>>) \o Inputs(deps, outs, i + 1)

\* Gathering that takes the node's own previous lastResult when it has no dependency.
GatherInputStale(g, outs, id) ==
  IF Len(Deps(g, id)) = 0 THEN Some(props[id].lastResult)
  ELSE LET inputs == Inputs(Deps(g, id), outs, 1)
       IN IF Len(inputs) = 1 THEN Some(inputs[1])
          ELSE IF Len(inputs) > 1 THEN Some(StringifyArray(inputs))
          ELSE Undefined

\* Gather inputs from dependencies: the inputData of the iteration for id.
GatherInput(g, outs, id) ==
  LET deps == Deps(g, id)
  IN IF Len(deps) > 0
     THEN LET inputs == Inputs(deps, outs, 1)
          IN IF Len(inputs) = 1 THEN Some(inputs[1])
             ELSE IF Len(inputs) > 1 THEN Some(StringifyArray(inputs))
             ELSE Undefined
     ELSE Undefined

\* executeCodeAPI's fullCode: the prelude that declares $input, then the code.
\*   decl: the keyword $input is declared with;
\*   init: the value it is declared with (JSON.stringify(inputData), or undefined);
\*   reparse: whether the try { $input = JSON.parse($input) } line is there.
FullCode(code, inp) ==
  IF Truthy(inp)
  THEN [decl |-> "const", init |-> Some(inp.val), reparse |-> TRUE, body |-> code]
  ELSE [decl |-> "const", init |-> Undefined, reparse |-> FALSE, body |-> code]

\* The body of the POST /execute request for the node id.
Request(g, outs, id) ==
  LET inp == GatherInput(g, outs, id)
  IN [id |-> id, fullCode |-> FullCode(props[id].code, inp), inputData |-> inp]

\* All remaining nodes' requests at once: a loop that does not await.
IssuedNoAwait(g, ord, outs, i) == {Request(g, outs, ord[j]) : j \in i..Len(ord)}

\* The requests the iteration at position i issues before it suspends.
Issued(g, ord, outs, i) == {Request(g, outs, ord[i])}

\* const terminal = terminals.find(t => t.id === id); if (!terminal) continue:
\* the first position from i on whose id is a terminal's, or Len(ord) + 1.
RECURSIVE SkipMissing(_, _)
SkipMissing(ord, i) ==
  IF i > Len(ord) \/ ord[i] \in TerminalIds THEN i ELSE SkipMissing(ord, i + 1)

BeginIteration(g, ord, outs, i) ==
  /\ idx' = i
  /\ inputData' = GatherInput(g, outs, ord[i])
  /\ props' = [props EXCEPT ![ord[i]] = UpdateShape(@, [isRunning |-> TRUE])]
  /\ inflight' = inflight \cup Issued(g, ord, outs, i)
  /\ pc' = "awaiting"

---------------------------------------------------------------------------
\* The answers of POST /execute, as executeCodeAPI returns them

Result(success, stdout, stderr, error) ==
  [success |-> success, stdout |-> stdout, stderr |-> stderr, error |-> error]

\* What the code of node id can make a backend answer.  The token id stands
\* for the text that node prints.
ResultsOf(id) ==
  { Result(TRUE, Some(<<id, NL>>), Some(<<>>), Undefined),          \* one printed line
    Result(TRUE, Some(<<"log", NL, id>>), Some(<<>>), Undefined),   \* no newline at the end
    Result(TRUE, Some(<<id, NL>>), Some(<<"err", id>>), Undefined), \* text on stderr too
    Result(TRUE, Some(<<>>), Some(<<>>), Undefined),                \* prints nothing
    Result(TRUE, Some(<<id>>), Undefined, Undefined),               \* {success, stdout} only
    Result(FALSE, Some(<<>>), Some(<<"trace", NL>>), Undefined),    \* non-zero exit
    Result(FALSE, Undefined, Undefined, Some(<<"Execution timeout (10s)">>)),
    Result(FALSE, Undefined, Undefined, Some(<<"Execution failed">>)) } \* the catch

\* Storing whatever came back, also from a failed execution.
StoresOutputAlways(result) == TRUE

\* if (result.success && result.stdout)
StoresOutput(result) == result.success /\ Truthy(result.stdout)

\* result.stderr || result.stdout.split('\n').pop() || ''
PipeValue(result) ==
  IF result.stdout.defined
  THEN OrElse(result.stderr, OrElse(Some(Pop(Split(result.stdout.val))), Some(<<>>))).val
  ELSE OrElse(result.stderr, Some(<<>>)).val

\* A loop that gives up on the first failed execution.
AfterResponseAbort(result) == IF result.success THEN "delay" ELSE "done"

\* After the result is written back the loop goes on to its delay, whatever
\* the result was: nothing between the await and the delay looks at success.
AfterResponse(result) == "delay"

\* lastResult: outputs.get(id) || ''
LastResultOf(outs, id) == OrElse(MapGet(outs, id), Some(<<>>)).val

\* An update that resets isRunning only after a successful execution.
ResultPropsOnSuccess(result, outs, id) ==
  [isRunning |-> ~result.success, lastResult |-> LastResultOf(outs, id)]

\* Update terminal with result: the props of the second updateShape.
ResultProps(result, outs, id) ==
  [isRunning |-> FALSE, lastResult |-> LastResultOf(outs, id)]

---------------------------------------------------------------------------
\* Actions

Init ==
  /\ arrows \in SeqsUpTo(ArrowsBetween(TerminalEnds), MaxArrows)
  /\ props = [id \in TerminalIds |->
                DefaultProps(OpaqueCode)]
  /\ pc = "idle"
  /\ graph = [id \in TerminalIds |-> <<>>]
  /\ order = <<>>
  /\ idx = 0
  /\ outputs = EmptyMap
  /\ inputData = Undefined
  /\ inflight = {}
  /\ completed = <<>>
  /\ failed = {}
  /\ backend = "unspecified"
  /\ RunnerInit
  /\ gen = IdleGenerator("server", "none")
  /\ UiInit
  /\ http = IdleHandler("server")

\* The click on "Run Pipeline", up to the first await: the snapshot, the graph,
\* the order, and the first iteration as far as its request.
RunPipeline ==
  /\ pc \in {"idle", "done"}
  /\ LET g == BuildGraph(arrows)
         ord == TopoOrder(g)
     IN /\ graph' = g
        /\ order' = ord
        /\ outputs' = EmptyMap
        /\ completed' = <<>>
        /\ failed' = {}
        /\ IF SkipMissing(ord, 1) > Len(ord)
           THEN pc' = "done" /\ UNCHANGED <<idx, inputData, props, inflight>>
           ELSE BeginIteration(g, ord, EmptyMap, SkipMissing(ord, 1))
  /\ UNCHANGED <<arrows, backend, runnerVars, genVars, uiVars>>

\* The answer to the current node's request arrives: store the output, update
\* the terminal, start the 300 ms delay.
Respond(req, result) ==
  /\ pc = "awaiting"
  /\ req \in inflight
  /\ req.id = order[idx]
  /\ inflight' = inflight \ {req}
  /\ LET id == req.id
         outs == IF StoresOutput(result)
                 THEN MapSet(outputs, id, PipeValue(result))
                 ELSE outputs
     IN /\ outputs' = outs
        /\ props' = [props EXCEPT ![id] = UpdateShape(@, ResultProps(result, outs, id))]
        /\ completed' = Append(completed, id)
        /\ failed' = IF result.success THEN failed ELSE failed \cup {id}
  /\ pc' = AfterResponse(result)
  /\ UNCHANGED <<arrows, graph, order, idx, inputData, backend, runnerVars, genVars, uiVars>>

\* The delay is over: the next iteration, or "Pipeline complete!".
DelayElapsed ==
  /\ pc = "delay"
  /\ IF SkipMissing(order, idx + 1) <= Len(order)
     THEN BeginIteration(graph, order, outputs, SkipMissing(order, idx + 1))
     ELSE pc' = "done" /\ UNCHANGED <<idx, inputData, props, inflight>>
  /\ UNCHANGED <<arrows, graph, order, outputs, completed, failed, backend, runnerVars, genVars, uiVars>>

Next ==
  \/ RunPipeline
  \/ \E req \in inflight : \E result \in ResultsOf(req.id) : Respond(req, result)
  \/ DelayElapsed

Spec == Init /\ [][Next]_vars

---------------------------------------------------------------------------
\* Vocabulary of the properties

Range(q) == {q[i] : i \in 1..Len(q)}

\* The first position of x in q, 0 when it is not there.
IndexOf(q, x) ==
  IF x \in Range(q) THEN CHOOSE i \in 1..Len(q) : q[i] = x /\ \A j \in 1..(i - 1) : q[j] # x
  ELSE 0

\* The terminal-to-terminal edges <<source, target>> of a graph.
Edges(g) == UNION {{<<g[t][i], t>> : i \in 1..Len(g[t])} : t \in DOMAIN g}

\* The pairs <<x, y>> with a path of at least one edge from x to y.
RECURSIVE Closure(_, _, _)
Closure(E, R, n) ==
  IF n = 0 THEN R
  ELSE Closure(E, R \cup {<<p[1][1], p[2][2]>> : p \in {q \in R \X E : q[1][2] = q[2][1]}},
               n - 1)

Paths(g) == Closure(Edges(g), Edges(g), Cardinality(TerminalIds))

HasCycle(g) == \E id \in TerminalIds : <<id, id>> \in Paths(g)

\* The node of the current loop iteration and its dependency list.
Current == order[idx]
CurrentDeps == graph[Current]

---------------------------------------------------------------------------
\* Properties of the ordering and of the sequential run

\* C1: when the terminal-to-terminal edges form a DAG, the order holds the
\* source of every edge at a strictly smaller index than the edge's target.
C1_DagOrderRespectsEdges ==
  (pc # "idle" /\ ~HasCycle(graph)) =>
    \A e \in Edges(graph) :
      /\ IndexOf(order, e[1]) >= 1
      /\ IndexOf(order, e[1]) < IndexOf(order, e[2])

\* A run over a two-edge DAG whose order differs from the enumeration order.
C1_Witness ==
  /\ pc = "done"
  /\ ~HasCycle(graph)
  /\ Cardinality(Edges(graph)) = 2
  /\ order # Terminals

\* C2: on a graph with a cycle the run executes nothing: no request is
\* issued, no result is written back and no terminal is marked running.
C2_CycleRunsNothing ==
  (pc # "idle" /\ HasCycle(graph)) =>
    /\ inflight = {}
    /\ completed = <<>>
    /\ \A id \in TerminalIds : ~props[id].isRunning /\ props[id].lastResult = <<>>

\* C3: a node's execution begins only after the execution of every node of
\* its dependency list has completed in the same run.
C3_DepsCompletedFirst ==
  pc = "awaiting" => \A d \in Range(CurrentDeps) : d \in Range(completed)

\* C4: at most one execution is in flight; the request for position idx is
\* out only when every earlier position's result has been written back.
C4_OneInFlight ==
  /\ Cardinality(inflight) <= 1
  /\ \A req \in inflight :
       /\ pc = "awaiting"
       /\ req.id = Current
       /\ completed = SubSeq(order, 1, idx - 1)
       /\ \A j \in 1..(idx - 1) :
            /\ ~props[order[j]].isRunning
            /\ props[order[j]].lastResult = LastResultOf(outputs, order[j])

\* The second node's request is in flight and it does not depend on the first.
C4_Witness ==
  /\ pc = "awaiting"
  /\ idx = 2
  /\ inflight # {}
  /\ order[1] \notin Range(CurrentDeps)
  /\ Current \notin Range(graph[order[1]])

---------------------------------------------------------------------------
\* Properties of the inputs handed from node to node

\* The dependency list without the nodes that failed in this run.
NotFailed(d) == d \notin failed
LiveDeps == SelectSeq(CurrentDeps, NotFailed)

\* What the node would be given if its failed dependencies were not listed.
InputFromLiveDeps ==
  LET inputs == Inputs(LiveDeps, outputs, 1)
  IN IF Len(inputs) = 1 THEN Some(inputs[1])
     ELSE IF Len(inputs) > 1 THEN Some(StringifyArray(inputs))
     ELSE Undefined

\* C5: a failed execution does not end the run: a finished run has executed
\* every node of the order, those placed after a failed node included, and a
\* failed node contributes nothing to the input of its dependents.
C5_FailureDoesNotAbort ==
  /\ pc = "done" => completed = order /\ Range(order) = TerminalIds
  /\ pc \in {"awaiting", "delay"} => completed = SubSeq(order, 1, Len(completed))
  /\ failed \cap DOMAIN outputs = {}
  /\ pc = "awaiting" =>
       /\ inputData = InputFromLiveDeps
       /\ (Range(CurrentDeps) # {} /\ Range(CurrentDeps) \subseteq failed) =>
            \A req \in inflight : req.inputData = Undefined /\ req.fullCode.init = Undefined

\* A finished run whose first node failed and has a dependent placed after it.
C5_Witness ==
  /\ pc = "done"
  /\ order[1] \in failed
  /\ order[1] \in Range(graph[order[2]])
  /\ completed = order

\* C6: a node with no incoming edge is executed with the "no input" sentinel,
\* also when earlier runs left a lastResult on it.
C6_NoDepsNoInput ==
  (pc = "awaiting" /\ Len(CurrentDeps) = 0) =>
    /\ inputData = Undefined
    /\ \A req \in inflight : req.inputData = Undefined /\ req.fullCode.init = Undefined

\* A node without dependencies is executed while it holds a lastResult of an
\* earlier run.
C6_Witness ==
  /\ pc = "awaiting"
  /\ Len(CurrentDeps) = 0
  /\ props[Current].lastResult # <<>>
  /\ inflight # {}

\* C7: a node with exactly one incoming edge is given the lastResult this run
\* recorded on its dependency, the empty string included.
C7_SingleDepInjected ==
  (pc = "awaiting" /\ Len(CurrentDeps) = 1 /\ CurrentDeps[1] \in Range(completed)) =>
    \A req \in inflight :
      /\ req.inputData = Some(props[CurrentDeps[1]].lastResult)
      /\ req.fullCode.init = Some(props[CurrentDeps[1]].lastResult)

\* C8: a node with two incoming edges is given the serialized array of the
\* two dependencies' outputs, in edge order, whatever their outcomes.
C8_FanInPair ==
  (/\ pc = "awaiting"
   /\ Len(CurrentDeps) = 2
   /\ Range(CurrentDeps) \subseteq Range(completed)) =>
    \A req \in inflight :
      req.inputData = Some(StringifyArray(<<props[CurrentDeps[1]].lastResult,
                                            props[CurrentDeps[2]].lastResult>>))

---------------------------------------------------------------------------
\* The /execute backends, run on concrete programs

\* Bound: the largest number a program of the model computes.
MaxNum == 4
Nums == 0..MaxNum

\* JavaScript values that $input and the programs' results take.
\* An "object" is {x: num}; "objectNaN" is {x: NaN}; "objectNull" is {x: null}.
JValue(kind, str, num) == [kind |-> kind, str |-> str, num |-> num]
JUndefined == JValue("undefined", <<>>, 0)
JString(s) == JValue("string", s, 0)
JObject(n) == JValue("object", <<>>, n)
JNumber(n) == JValue("number", <<>>, n)

\* The value of a `string | undefined`
JOf(o) == IF o.defined THEN JString(o.val) ELSE JUndefined

\* JSON.stringify(v) for an object or a number
JsonStringify(v) ==
  CASE v.kind = "object" -> <<"{\"x\":", ToString(v.num), "}">>
    [] v.kind \in {"objectNaN", "objectNull"} -> <<"{\"x\":", "null", "}">>
    [] v.kind = "number" -> <<ToString(v.num)>>
    [] v.kind = "string" -> StringifyString(v.str)
    [] OTHER -> <<"null">>

\* String(v), with objects shown as their JSON text
Shown(v) ==
  CASE v.kind = "undefined" -> <<"undefined">>
    [] v.kind = "string" -> v.str
    [] v.kind = "NaN" -> <<"NaN">>
    [] OTHER -> JsonStringify(v)

RECURSIVE TrimEnd(_)
TrimEnd(s) == IF s # <<>> /\ s[Len(s)] = NL THEN TrimEnd(SubSeq(s, 1, Len(s) - 1)) ELSE s

IsNumTok(t) == \E n \in Nums : ToString(n) = t
NumOf(t) == CHOOSE n \in Nums : ToString(n) = t

\* JSON.parse(s): [ok, value]; ok = FALSE when it throws.  The texts that reach
\* it here are object texts, number texts and plain words.
JsonParse(s) ==
  LET t == TrimEnd(s)
  IN IF Len(t) = 3 /\ t[1] = "{\"x\":" /\ t[3] = "}" /\ IsNumTok(t[2])
     THEN [ok |-> TRUE, value |-> JObject(NumOf(t[2]))]
     ELSE IF Len(t) = 3 /\ t[1] = "{\"x\":" /\ t[3] = "}" /\ t[2] = "null"
     THEN [ok |-> TRUE, value |-> JValue("objectNull", <<>>, 0)]
     ELSE IF Len(t) = 1 /\ IsNumTok(t[1])
     THEN [ok |-> TRUE, value |-> JNumber(NumOf(t[1]))]
     ELSE [ok |-> FALSE, value |-> JUndefined]

\* The programs typed into the terminals.
\*   kind "emit1":  emits {x: 1}
\*   kind "double": emits {x: 2 * $input.x}
\*   kind "readx":  emits $input.x
\*   out "log":   console.log(text)            (a newline follows in a process)
\*   out "write": process.stdout.write(text)   (no newline)
Programs == [kind : {"emit1", "double", "readx"}, out : {"log", "write"}]

\* Running a program's statements with $input = v: [threw, value].
Eval(kind, v) ==
  CASE kind = "emit1" -> [threw |-> FALSE, value |-> JObject(1)]
    [] kind = "double" ->
         IF v.kind = "undefined" THEN [threw |-> TRUE, value |-> JUndefined]
         ELSE IF v.kind = "object" /\ 2 * v.num \in Nums
              THEN [threw |-> FALSE, value |-> JObject(2 * v.num)]
         ELSE IF v.kind = "objectNull" THEN [threw |-> FALSE, value |-> JObject(0)]
         ELSE [threw |-> FALSE, value |-> JValue("objectNaN", <<>>, 0)]
    [] OTHER ->
         IF v.kind = "undefined" THEN [threw |-> TRUE, value |-> JUndefined]
         ELSE IF v.kind = "object" THEN [threw |-> FALSE, value |-> JNumber(v.num)]
         ELSE [threw |-> FALSE, value |-> JUndefined]

\* The value of $input after the prelude, run as a script: $input is declared
\* const, so the assignment in the try block throws a TypeError, which the
\* catch swallows (as it swallows JSON.parse's SyntaxError): $input keeps the
\* string it was declared with.
PreludeValue(fullCode) ==
  IF fullCode.decl = "const" THEN JOf(fullCode.init)
  ELSE IF fullCode.reparse /\ fullCode.init.defined /\ JsonParse(fullCode.init.val).ok
       THEN JsonParse(fullCode.init.val).value
       ELSE JOf(fullCode.init)

\* server.js: POST /execute runs executeCode(code) and ignores inputData; the
\* script is run by `node file`.
SubprocessRun(req) ==
  LET e == Eval(req.fullCode.body.kind, PreludeValue(req.fullCode))
      text == Shown(e.value)
  IN IF e.threw
     THEN Result(FALSE, Some(<<>>), Some(<<"TypeError", NL>>), Undefined)
     ELSE Result(TRUE,
                 Some(IF req.fullCode.body.out = "log" THEN Append(text, NL) ELSE text),
                 Some(<<>>), Undefined)

\* worker/src/index.ts executeCode(code, inputData): $input is a parameter of
\* new Function('console', '$input', code).  A body that declares $input again
\* with const or let is a SyntaxError, raised by new Function and caught.
WorkerRun(req) ==
  LET param == IF Truthy(req.inputData)
               THEN (IF JsonParse(req.inputData.val).ok
                     THEN JsonParse(req.inputData.val).value
                     ELSE JString(req.inputData.val))
               ELSE JUndefined
      e == Eval(req.fullCode.body.kind, param)
  IN IF req.fullCode.decl \in {"const", "let"}
     THEN Result(FALSE, Some(<<>>), Undefined,
                 Some(<<"Identifier '$input' has already been declared">>))
     ELSE IF e.threw \/ req.fullCode.body.out = "write"
     THEN Result(FALSE, Some(<<>>), Undefined, Some(<<"Error">>))
     ELSE Result(TRUE, Some(Shown(e.value)), Undefined, Undefined)

BackendResult(req) == IF backend = "subprocess" THEN SubprocessRun(req) ELSE WorkerRun(req)

\* The linear pipeline A -> B -> C.
LinearArrows ==
  << [start |-> Bound("A"), end |-> Bound("B")], [start |-> Bound("B"), end |-> Bound("C")] >>

InitBackends ==
  /\ arrows = LinearArrows
  /\ \E code \in [TerminalIds -> Programs] :
       props = [id \in TerminalIds |->
                  DefaultProps(code[id])]
  /\ backend \in {"subprocess", "worker"}
  /\ pc = "idle"
  /\ graph = [id \in TerminalIds |-> <<>>]
  /\ order = <<>>
  /\ idx = 0
  /\ outputs = EmptyMap
  /\ inputData = Undefined
  /\ inflight = {}
  /\ completed = <<>>
  /\ failed = {}
  /\ RunnerInit
  /\ gen = IdleGenerator("server", "none")
  /\ UiInit
  /\ http = IdleHandler("server")

RespondBackend == \E req \in inflight : Respond(req, BackendResult(req))

NextBackends ==
  \/ RunPipeline
  \/ RespondBackend
  \/ DelayElapsed

SpecBackends == InitBackends /\ [][NextBackends]_vars

\* A emits {x: 1}, B doubles it, C reads $input.x.
DemoPrograms ==
  /\ props["A"].code.kind = "emit1"
  /\ props["B"].code.kind = "double"
  /\ props["C"].code.kind = "readx"

\* C9: in the linear pipeline A -> B -> C with A emitting {x: 1}, B doubling
\* and C reading $input.x, C runs successfully and its lastResult is 2, on
\* each backend.
C9_LinearPipelineReads2 ==
  (pc = "done" /\ DemoPrograms) =>
    /\ "C" \notin failed
    /\ props["C"].lastResult = <<"2">>

---------------------------------------------------------------------------
\* The runner on its own: calls of executeCode, no pipeline run

InitRunner ==
  /\ arrows = <<>>
  /\ props = [id \in TerminalIds |->
                DefaultProps(OpaqueCode)]
  /\ pc = "idle"
  /\ graph = [id \in TerminalIds |-> <<>>]
  /\ order = <<>>
  /\ idx = 0
  /\ outputs = EmptyMap
  /\ inputData = Undefined
  /\ inflight = {}
  /\ completed = <<>>
  /\ failed = {}
  /\ backend = "subprocess"
  /\ RunnerInit
  /\ gen = IdleGenerator("server", "none")
  /\ UiInit
  /\ http = IdleHandler("server")

SpecRunner == InitRunner /\ [][NextRunner]_vars

RunnerFairness(c) ==
  /\ WF_vars(WriteDone(c) \/ WriteFails(c))
  /\ WF_vars(ChildError(c))
  /\ WF_vars(ChildClose(c))
  /\ WF_vars(CloseHandlerDone(c))
  /\ WF_vars(ErrorHandlerDone(c))
  /\ WF_vars(SpawnTimerFires(c))
  /\ WF_vars(OwnTimerFires(c))

SpecRunnerLive == SpecRunner /\ \A c \in Calls : RunnerFairness(c)

\* The call c has written its temporary file (the executor ran, or threw).
Written(c) == calls[c].pc \in {"pending", "rejected"}

\* C11: once a call has written its temporary script, the file of that name
\* is eventually removed, whatever way the call ends.
C11_FileEventuallyRemoved ==
  \A c \in Calls : Written(c) ~> (calls[c].filename \notin DOMAIN files)

\* From writing the temporary file until a handler of the call has unlinked it.
InLifetime(c) ==
  \/ calls[c].pc = "writing"
  \/ Written(c) /\ calls[c].onClose # "done" /\ calls[c].onError # "done"

\* C12: two calls whose lifetimes overlap have different file names.
C12_DistinctFileNames ==
  \A c, d \in Calls :
    (c # d /\ InLifetime(c) /\ InLifetime(d)) => calls[c].filename # calls[d].filename

\* C13: a call that has ended gave its caller a structured result, of the
\* shape of its exit path, and its promise was never rejected.
C13_StructuredResult ==
  \A c \in Calls :
    calls[c].result # Pending =>
      /\ calls[c].result.kind \in {"exit", "error"}
      /\ calls[c].result.kind = "exit" =>
            /\ calls[c].result.exitCode \in {"0", "1", "null", "-2"}
            /\ calls[c].result.success = (calls[c].result.exitCode = "0")
      /\ calls[c].result.kind = "error" =>
            /\ ~calls[c].result.success
            /\ calls[c].result.error # "none"

\* C14: every call that was made eventually has a result.
C14_EventuallyResult ==
  \A c \in Calls :
    (calls[c].pc = "writing") ~> (calls[c].result.kind \in {"exit", "error"})

---------------------------------------------------------------------------
\* The /generate endpoints on their own

InitGenerate ==
  /\ arrows = <<>>
  /\ props = [id \in TerminalIds |->
                DefaultProps(OpaqueCode)]
  /\ pc = "idle"
  /\ graph = [id \in TerminalIds |-> <<>>]
  /\ order = <<>>
  /\ idx = 0
  /\ outputs = EmptyMap
  /\ inputData = Undefined
  /\ inflight = {}
  /\ completed = <<>>
  /\ failed = {}
  /\ backend = "unspecified"
  /\ RunnerInit
  /\ \E server \in Servers : \E apiKey \in ApiKeys(server) :
       gen = IdleGenerator(server, apiKey)
  /\ UiInit
  /\ http = IdleHandler("server")

SpecGenerate == InitGenerate /\ [][NextGenerate]_vars

\* C15: with no credential configured, no request is put on the network and
\* the generator returns null.
C15_NoKeyNoFetch ==
  gen.apiKey = "none" =>
    /\ gen.fetches = 0
    /\ gen.pc = "done" => gen.returned = Undefined

\* A successful response whose body is JSON and holds the content field.
WellFormed(o) == o.transport = "ok" /\ o.ok /\ o.json /\ o.text.defined

\* C16: after a fetch the generator returns a code string only when the
\* response was successful and well-formed, and null for every other outcome.
C16_NullUnlessWellFormed ==
  (gen.pc = "done" /\ gen.outcome # NoOutcome) =>
    (gen.returned.defined => WellFormed(gen.outcome))

\* C17: when the generator returned null, the /generate request is answered
\* with success: true and one of the canned examples.
C17_FallbackToSample ==
  (gen.pc = "done" /\ gen.returned = Undefined) =>
    /\ gen.response.success
    /\ gen.response.code.defined
    /\ gen.response.code.val # <<>>
    /\ \E i \in DOMAIN sampleCode : gen.response.code.val = sampleCode[i]

---------------------------------------------------------------------------
\* Frame of a pipeline run

\* C18: no step of a pipeline run adds, removes or changes an arrow, adds or
\* removes a terminal, or changes a terminal's code or title: of a terminal's
\* props a step changes at most isRunning and lastResult.
C18_RunWritesOnlyRunState ==
  [][ /\ arrows' = arrows
      /\ DOMAIN props' = DOMAIN props
      /\ \A id \in DOMAIN props :
           /\ DOMAIN props'[id] = DOMAIN props[id]
           /\ props'[id].code = props[id].code
           /\ props'[id].title = props[id].title ]_vars

\* A run has ended after writing a result onto a terminal.
C18_Witness ==
  /\ pc = "done"
  /\ Len(completed) = Len(Terminals)
  /\ \E id \in TerminalIds : props[id].lastResult # <<>>
  /\ \A id \in TerminalIds : props[id] = [DefaultProps(OpaqueCode) EXCEPT
                                             !.lastResult = props[id].lastResult]

---------------------------------------------------------------------------
\* The graph of a page whose arrows have ends of every kind

InitGraph ==
  /\ arrows \in SeqsUpTo(ArrowsBetween(AllEnds), MaxArrows)
  /\ props = [id \in TerminalIds |-> DefaultProps(OpaqueCode)]
  /\ pc = "idle"
  /\ graph = [id \in {} |-> <<>>]
  /\ order = <<>>
  /\ idx = 0
  /\ outputs = EmptyMap
  /\ inputData = Undefined
  /\ inflight = {}
  /\ completed = <<>>
  /\ failed = {}
  /\ backend = "unspecified"
  /\ RunnerInit
  /\ gen = IdleGenerator("server", "none")
  /\ UiInit
  /\ http = IdleHandler("server")

\* The click on "Run Pipeline": the graph is built in its first step.
NextGraph == RunPipeline

SpecGraph == InitGraph /\ [][NextGraph]_vars

\* The arrow has both ends bound to terminals.
TerminalToTerminal(arrow) ==
  /\ arrow.start.type = "binding" /\ arrow.start.boundShapeId \in TerminalIds
  /\ arrow.end.type = "binding" /\ arrow.end.boundShapeId \in TerminalIds

\* The distinct sources of the terminal-to-terminal arrows that end at t.
SourcesOf(t) ==
  {arrows[i].start.boundShapeId :
     i \in {j \in 1..Len(arrows) : TerminalToTerminal(arrows[j])
                                    /\ arrows[j].end.boundShapeId = t}}

\* C19: in the built graph each terminal's list holds exactly the distinct
\* sources of the terminal-to-terminal arrows that end at it, each once.
C19_DistinctSources ==
  pc # "idle" =>
    \A t \in TerminalIds :
      /\ Range(Deps(graph, t)) = SourcesOf(t)
      /\ Len(Deps(graph, t)) = Cardinality(SourcesOf(t))

\* C20: in the built graph every terminal is a key, and a terminal at which
\* no terminal-to-terminal arrow ends is mapped to the empty list.
C20_EveryTerminalKeyed ==
  pc # "idle" =>
    /\ TerminalIds \subseteq DOMAIN graph
    /\ \A t \in TerminalIds : SourcesOf(t) = {} => graph[t] = <<>>

\* The graph was built for a page where an arrow ends at a terminal without
\* coming from one, and another terminal has an edge.
C20_Witness ==
  /\ pc # "idle"
  /\ \E i \in 1..Len(arrows) :
       /\ ~TerminalToTerminal(arrows[i])
       /\ arrows[i].end = Bound("A")
       /\ graph["A"] = <<>>
  /\ \E t \in TerminalIds : graph[t] # <<>>

\* The arrows with both ends bound to terminals, as a number.
NumTerminalArrows == Cardinality({i \in 1..Len(arrows) : TerminalToTerminal(arrows[i])})

RECURSIVE SumLen(_, _)
SumLen(g, ids) ==
  IF ids = {} THEN 0
  ELSE LET t == CHOOSE x \in ids : TRUE IN Len(g[t]) + SumLen(g, ids \ {t})

\* C21: in the built graph every key and every id in a list is a terminal's,
\* and the lists have one entry per arrow with both ends bound to terminals:
\* an arrow with a free end or an end on another shape adds nothing.
C21_OnlyTerminalEdges ==
  pc # "idle" =>
    /\ DOMAIN graph \subseteq TerminalIds
    /\ \A t \in DOMAIN graph : Range(graph[t]) \subseteq TerminalIds
    /\ SumLen(graph, DOMAIN graph) = NumTerminalArrows

\* The graph was built for a page with an arrow from another shape to a
\* terminal and an arrow that starts at a free point: neither is an edge.
C21_Witness ==
  /\ pc # "idle"
  /\ \E i \in 1..Len(arrows) : arrows[i].start = Bound("geo") /\ arrows[i].end = Bound("B")
  /\ \E i \in 1..Len(arrows) : arrows[i].start = Point /\ arrows[i].end.type = "binding"
  /\ graph["B"] = <<>>

---------------------------------------------------------------------------
\* A pipeline run together with the Run buttons of its terminals

InitOverlap ==
  /\ arrows = LinearArrows
  /\ props = [id \in TerminalIds |-> DefaultProps(OpaqueCode)]
  /\ pc = "idle"
  /\ graph = [id \in {} |-> <<>>]
  /\ order = <<>>
  /\ idx = 0
  /\ outputs = EmptyMap
  /\ inputData = Undefined
  /\ inflight = {}
  /\ completed = <<>>
  /\ failed = {}
  /\ backend = "unspecified"
  /\ RunnerInit
  /\ gen = IdleGenerator("server", "none")
  /\ UiInit
  /\ http = IdleHandler("server")

\* The answers that matter to a terminal's run state and display: one of a
\* successful execution, one of a failed one.
OverlapResultsOf(id) ==
  {r \in ResultsOf(id) : r.stdout = Some(<<id, NL>>) /\ r.stderr = Some(<<>>)} \cup
  {r \in ResultsOf(id) : r.error = Some(<<"Execution timeout (10s)">>)}

NextOverlap ==
  \/ RunPipeline
  \/ \E req \in inflight : \E result \in OverlapResultsOf(req.id) : Respond(req, result)
  \/ DelayElapsed
  \/ \E id \in TerminalIds : ManualRun(id)
  \/ \E id \in TerminalIds : \E o \in ManualOutcomes : ManualDone(id, o)

SpecOverlap == InitOverlap /\ [][NextOverlap]_vars

\* An execution of the terminal id is in flight: a request of the pipeline
\* run, or an execution its Run button started.
InFlight(id) == manual[id] > 0 \/ \E req \in inflight : req.id = id

\* C22: a terminal's isRunning is false only when no execution of it is in
\* flight, whatever way a pipeline run and the Run buttons interleave.
C22_IdleMeansNoneInFlight ==
  \A id \in TerminalIds : ~props[id].isRunning => ~InFlight(id)

\* C23: when an execution of a terminal in the pipeline run fails, the
\* terminal's display then shows an error text.
C23_FailureIsDisplayed ==
  [][ \A id \in TerminalIds :
        (id \in failed' /\ id \notin failed) =>
          (term'[id].status = "error" /\ term'[id].message.defined) ]_vars

---------------------------------------------------------------------------
\* The Run buttons on their own

InitManual ==
  /\ arrows = <<>>
  /\ props \in [TerminalIds -> {DefaultProps(code) : code \in {OpaqueCode} \cup BlankCodes}]
  /\ pc = "idle"
  /\ graph = [id \in {} |-> <<>>]
  /\ order = <<>>
  /\ idx = 0
  /\ outputs = EmptyMap
  /\ inputData = Undefined
  /\ inflight = {}
  /\ completed = <<>>
  /\ failed = {}
  /\ backend = "unspecified"
  /\ RunnerInit
  /\ gen = IdleGenerator("server", "none")
  /\ UiInit
  /\ http = IdleHandler("server")

SpecManual == InitManual /\ [][NextManual]_vars

\* C30: an execution started by a terminal's Run button starts only when
\* isRunning is false and the code is not blank; while it is in flight
\* isRunning is true and no second one starts; and the step that ends it, with
\* any outcome, leaves isRunning false.
C30_ManualRunState ==
  /\ \A id \in TerminalIds :
       /\ manual[id] \in {0, 1}
       /\ props[id].isRunning <=> manual[id] = 1
       /\ manual[id] = 1 => ~Blank(props[id].code)
       /\ term[id].status # "none" => ~Blank(props[id].code)

\* One terminal's execution has ended with an error shown while another
\* terminal's is in flight, and a blank terminal has never run.
C30_Witness ==
  /\ \E id \in TerminalIds :
       term[id].status = "error" /\ manual[id] = 0 /\ ~props[id].isRunning
  /\ \E id \in TerminalIds : manual[id] = 1 /\ props[id].isRunning
  /\ \E id \in TerminalIds : Blank(props[id].code) /\ term[id] = ShowsNothing

---------------------------------------------------------------------------
\* The request handlers on their own

InitServe ==
  /\ arrows = <<>>
  /\ props = [id \in TerminalIds |-> DefaultProps(OpaqueCode)]
  /\ pc = "idle"
  /\ graph = [id \in {} |-> <<>>]
  /\ order = <<>>
  /\ idx = 0
  /\ outputs = EmptyMap
  /\ inputData = Undefined
  /\ inflight = {}
  /\ completed = <<>>
  /\ failed = {}
  /\ backend = "unspecified"
  /\ RunnerInit
  /\ gen = IdleGenerator("server", "none")
  /\ manual = [id \in TerminalIds |-> 0]
  /\ term = [id \in TerminalIds |-> ShowsNothing]
  /\ \E server \in HttpServers : http = IdleHandler(server)

SpecServe == InitServe /\ [][NextServe]_vars

\* C24: every response a handler has sent carries
\* Access-Control-Allow-Origin: *.
C24_ResponsesAllowAnyOrigin ==
  http.response.status # 0 => AllowOrigin \in http.response.headers

\* A handler has answered an unknown route, a bad request, or a request whose
\* handling threw.
C24_Witness ==
  /\ http.pc = "responded"
  /\ http.response.status \in {404, 500, 400}
  /\ AllowOrigin \in http.response.headers

---------------------------------------------------------------------------
\* The run state of the nodes in one pipeline run

\* The sequence holds no element twice.
NoRepeats(q) == \A i, j \in 1..Len(q) : i # j => q[i] # q[j]

\* C25: in a pipeline run a node is running exactly while its call is in
\* flight: isRunning is true when the request is out, false again once the
\* result is written back, whatever it was; no node takes a second turn; and
\* when the run is complete every node has isRunning false.
C25_IdleRunningIdle ==
  /\ \A req \in inflight : props[req.id].isRunning
  /\ \A id \in TerminalIds :
       props[id].isRunning => (pc = "awaiting" /\ order[idx] = id /\ \E req \in inflight : req.id = id)
  /\ NoRepeats(completed)
  /\ \A i \in 1..Len(completed) : completed[i] = order[i]
  /\ pc = "delay" => Len(completed) = idx
  /\ pc = "awaiting" => Len(completed) = idx - 1
  /\ pc = "done" => \A id \in TerminalIds : ~props[id].isRunning

\* A run is complete in which a node failed and a later node succeeded.
C25_Witness ==
  /\ pc = "done"
  /\ Len(completed) = Len(Terminals)
  /\ completed[1] \in failed
  /\ completed[Len(completed)] \notin failed
  /\ \A id \in TerminalIds : ~props[id].isRunning

---------------------------------------------------------------------------
\* Completion of a pipeline run

\* An /execute request is answered, or fails and executeCodeAPI's catch
\* answers for it; the 300 ms delay elapses.
PipelineFairness ==
  /\ WF_vars(\E req \in inflight : \E result \in ResultsOf(req.id) : Respond(req, result))
  /\ WF_vars(DelayElapsed)

SpecLive == Spec /\ PipelineFairness

\* C26: for every page, cyclic or not, the order of a run is a permutation of
\* the terminals, no terminal is executed twice in the run, what has been
\* executed is a prefix of the order, and a run that has begun is eventually
\* complete with every terminal executed.
C26_RunCompletesOnceEach ==
  /\ [](pc # "idle" => /\ Len(order) = Len(Terminals)
                       /\ Range(order) = TerminalIds
                       /\ NoRepeats(completed)
                       /\ completed = SubSeq(order, 1, Len(completed)))
  /\ (pc = "awaiting") ~> (pc = "done" /\ completed = order)

\* A run over a page with a cycle is complete, every terminal executed, one
\* of them with a failure.
C26_Witness ==
  /\ pc = "done"
  /\ HasCycle(graph)
  /\ completed = order
  /\ Len(order) = Len(Terminals)
  /\ failed # {}

\* C27: on an acyclic page the order is the one that, each time, places the
\* first terminal of the enumeration that has no unmet dependency.
C27_EnumerationTieBreak ==
  (pc # "idle" /\ ~HasCycle(graph)) => order = TopoOrderReadyFirst(graph)

---------------------------------------------------------------------------
\* The value a node hands on

\* The execution printed at least one line.
PrintsLine(result) == Truthy(result.stdout)

\* The last line the execution printed: the last piece of stdout between
\* newlines that is not the empty piece after the final newline.
LastPrinted(result) ==
  LET pieces == Split(result.stdout.val)
  IN IF Pop(pieces) = <<>> /\ Len(pieces) > 1 THEN pieces[Len(pieces) - 1] ELSE Pop(pieces)

\* C28: when a node's execution in a pipeline run succeeds and has printed at
\* least one line, the output recorded for the node, and written to its
\* lastResult, is the last line it printed: not the empty text when stdout
\* ends with a newline, and not the text of stderr.
C28_LastPrintedRecorded ==
  [][ \A req \in inflight : \A result \in ResultsOf(req.id) :
        (Respond(req, result) /\ result.success /\ PrintsLine(result)) =>
          /\ req.id \in DOMAIN outputs'
          /\ outputs'[req.id] = LastPrinted(result)
          /\ props'[req.id].lastResult = LastPrinted(result) ]_vars

---------------------------------------------------------------------------
\* One result per call of executeCode

\* The step settles the result of call c.
Settles(c) == calls[c].result = Pending /\ calls'[c].result # Pending

\* The step runs the callback of call c's own timer.
OwnTimerRuns(c) == calls[c].ownTimer = "armed" /\ calls'[c].ownTimer = "fired"

\* C29: a call's result, once delivered, never changes; the step that
\* delivers it gives the result of the event that step handles ('close',
\* 'error', the timer, or a failure before the child exists); and the timer
\* running after the result was delivered changes neither the call's child,
\* which is no longer running, nor any other call.
C29_FirstEventFixesResult ==
  [][ \A c \in Calls :
        /\ calls[c].result # Pending => calls'[c].result = calls[c].result
        /\ Settles(c) =>
             \/ /\ calls[c].onClose = "unlinking" /\ calls'[c].onClose = "done"
                /\ calls'[c].result = ExitResult(calls[c].exitCode)
             \/ /\ calls[c].onError = "unlinking" /\ calls'[c].onError = "done"
                /\ calls'[c].result = ErrorResult("spawn failed")
             \/ /\ OwnTimerRuns(c)
                /\ calls'[c].result = TimeoutResult
             \/ /\ calls[c].pc = "writing" /\ calls'[c].pc \in {"returned", "rejected"}
                /\ calls'[c].child = "none"
        /\ (OwnTimerRuns(c) /\ calls[c].result # Pending) =>
             /\ calls[c].child \in {"exited", "spawnfailed"}
             /\ calls'[c].child = calls[c].child
             /\ calls'[c].exitCode = calls[c].exitCode
             /\ \A d \in Calls \ {c} : calls'[d] = calls[d] ]_vars

\* In one call the timer ran after a normal exit had delivered the exit
\* result; in the other 'close' arrived after the timeout result.
C29_Witness ==
  /\ \E c \in Calls :
       /\ calls[c].result = ExitResult("0")
       /\ calls[c].ownTimer = "fired"
       /\ calls[c].child = "exited"
  /\ \E d \in Calls :
       /\ calls[d].result = TimeoutResult
       /\ calls[d].onClose = "done"
       /\ calls[d].exitCode = "null"

====
